---- MODULE Spec2Model ----
(***************************************************************************)
(* Model of the tracking core of dust_tracker.py: the packages table, the  *)
(* usage_events table, scan_installed_packages (reconcile),                *)
(* scan_running_processes (correlate) and get_package_stats.               *)
(*                                                                         *)
(* Time is counted in units of 1/UnitsPerDay day.  `clock` is the local    *)
(* wall clock read by datetime.now(); SQLite's julianday('now') is UTC,    *)
(* which is clock - tz.  The text 'Never' in last_seen is the value Never. *)
(* SQL NULL is the empty set and a non-NULL number v is {v}.               *)
(* dust_percentage, a float in the code, is kept as the exact fraction     *)
(* num/den.                                                                *)
(*                                                                         *)
(* `leaked` says that a connection of a correlate pass which ended in its  *)
(* outer except is still open with its uncommitted writes: it holds the    *)
(* write lock of the database until the interpreter collects it, and the   *)
(* writes of other connections fail with 'database is locked' meanwhile.   *)
(* `last` is the last call made and what it returned.                      *)
(*                                                                         *)
(* `pending` and `running` are the web server of main(): the requests that *)
(* wait in the listening socket and the handlers that have been started    *)
(* and have not returned.  `reader` is a call of get_package_stats made by *)
(* another process on the same database file, query by query.  `pass`     *)
(* gives, for each run of dust_tracker.py on the database file, its call   *)
(* of scan_running_processes that has read the clock and has not returned: *)
(* the names it has written in its open transaction.                       *)
(***************************************************************************)
EXTENDS Integers, Sequences, FiniteSets, TLC

VARIABLES packages, events, clock, tz, last, leaked, pending, running, reader,
          pass

vars == <<packages, events, clock, tz, last, leaked, pending, running, reader,
          pass>>

(* the state of the web server *)
server == <<pending, running>>

----------------------------------------------------------------------------
(* Bounds of the model *)

UnitsPerDay == 2
MaxClock == 1
MaxProcs == 2
MaxEvents == 2
MaxPending == 2
MaxBlocks == 2

(* Constants of the program *)

Never == -1
NeverDays == 999
DustCap == 365
DustyDays == 30
FullPercent == 100
WeekDays == 7

----------------------------------------------------------------------------
(* Names, in the order of SQLite's BINARY collation *)

NameOrder == <<"a", "b", "c">>
Names == {NameOrder[i] : i \in 1..Len(NameOrder)}

(* the packages pacman may list, and those among them that own a running   *)
(* executable                                                              *)
InventoryNames == {"a", "b"}
RunningNames == {"a"}
NameRank(n) == CHOOSE i \in 1..Len(NameOrder) : NameOrder[i] = n

NoPkg == [absent |-> TRUE]

(* the runs of dust_tracker.py on one database file: the one whose calls   *)
(* the properties are about (the web server of main() when there is one)   *)
(* and a run of dust_tracker.py --scan-only next to it                     *)
Main == 1
ScanOnly == 2
Runs == {Main, ScanOnly}

Min(x, y) == IF x <= y THEN x ELSE y

SeqsUpTo(S, k) == UNION {[1..m -> S] : m \in 0..k}

----------------------------------------------------------------------------
(* packages table *)

Stored(pk) == {n \in Names : pk[n] # NoPkg}

(* mutant: the replaced row gets the default 'Never' *)
SavePackageForgets(pk, pkg_info, is_explicit, now) ==
  [pk EXCEPT ![pkg_info.name] =
     [description |-> pkg_info.description,
      install_date |-> pkg_info.install_date,
      explicit_install |-> is_explicit,
      last_seen |-> IF pk[pkg_info.name] # NoPkg THEN Never ELSE now]]

(* mutant: no COALESCE, the replaced row is stamped now *)
SavePackageOverwrites(pk, pkg_info, is_explicit, now) ==
  [pk EXCEPT ![pkg_info.name] =
     [description |-> pkg_info.description,
      install_date |-> pkg_info.install_date,
      explicit_install |-> is_explicit,
      last_seen |-> now]]

(* mutant: INSERT OR IGNORE, a row that exists is left as it is *)
SavePackageIgnores(pk, pkg_info, is_explicit, now) ==
  IF pk[pkg_info.name] # NoPkg THEN pk
  ELSE [pk EXCEPT ![pkg_info.name] =
          [description |-> pkg_info.description,
           install_date |-> pkg_info.install_date,
           explicit_install |-> is_explicit,
           last_seen |-> now]]

(* mutant: a row that exists keeps its explicit_install *)
SavePackageKeepsExplicit(pk, pkg_info, is_explicit, now) ==
  [pk EXCEPT ![pkg_info.name] =
     [description |-> pkg_info.description,
      install_date |-> pkg_info.install_date,
      explicit_install |-> IF pk[pkg_info.name] # NoPkg
                           THEN pk[pkg_info.name].explicit_install
                           ELSE is_explicit,
      last_seen |-> IF pk[pkg_info.name] # NoPkg
                    THEN pk[pkg_info.name].last_seen
                    ELSE now]]

(* INSERT OR REPLACE ... COALESCE((SELECT last_seen ...), now) *)
SavePackage(pk, pkg_info, is_explicit, now) ==
  [pk EXCEPT ![pkg_info.name] =
     [description |-> pkg_info.description,
      install_date |-> pkg_info.install_date,
      explicit_install |-> is_explicit,
      last_seen |-> IF pk[pkg_info.name] # NoPkg
                    THEN pk[pkg_info.name].last_seen
                    ELSE now]]

----------------------------------------------------------------------------
(* pacman -Qi output: one block of "Key : value" lines per package *)

Line(k, v) == [key |-> k, val |-> v]

FullBlock(n) == <<Line("Name", n), Line("Version", "1.0-1"),
                  Line("Description", "tool"), Line("Install Date", "Mon")>>
BareBlock(n) == <<Line("Name", n), Line("Description", "utility")>>

RECURSIVE Concat(_)
Concat(bs) == IF bs = <<>> THEN <<>> ELSE Head(bs) \o Concat(Tail(bs))

(* a Description line that no Name line precedes *)
HeadlessBlock == <<Line("Description", "tool")>>

(* current_pkg = {}: any says that the dict has a key, has that it has the *)
(* key 'name'                                                              *)
NoCur == [name |-> "", has |-> FALSE, any |-> FALSE,
          description |-> "", install_date |-> ""]

(* the for loop over all_packages.split('\n'); cur is current_pkg, with    *)
(* the defaults of pkg_info.get(..., '') filled in; t is the clock, which  *)
(* has moved by step when the next package is saved.  `if current_pkg:`    *)
(* is true of a dict with any key, and current_pkg['name'] of a dict       *)
(* without that key raises KeyError                                        *)
RECURSIVE ScanLines(_, _, _, _, _, _)
ScanLines(lines, cur, pk, explicit_set, t, step) ==
  IF lines = <<>>
  THEN IF ~cur.any
       THEN [pk |-> pk, t |-> t, raises |-> ""]
       ELSE IF ~cur.has
       THEN [pk |-> pk, t |-> t, raises |-> "KeyError"]
       ELSE [pk |-> SavePackage(pk, cur, cur.name \in explicit_set, t),
             t |-> t, raises |-> ""]
  ELSE LET l == Head(lines) IN
       IF l.key = "Name"
       THEN IF cur.any /\ ~cur.has
            THEN [pk |-> pk, t |-> t, raises |-> "KeyError"]
            ELSE ScanLines(Tail(lines),
                           [NoCur EXCEPT !.name = l.val, !.has = TRUE,
                                         !.any = TRUE],
                           IF cur.any
                           THEN SavePackage(pk, cur, cur.name \in explicit_set, t)
                           ELSE pk,
                           explicit_set,
                           IF cur.any THEN t + step ELSE t,
                           step)
       ELSE IF l.key = "Description"
       THEN ScanLines(Tail(lines),
                      [cur EXCEPT !.description = l.val, !.any = TRUE],
                      pk, explicit_set, t, step)
       ELSE IF l.key = "Install Date"
       THEN ScanLines(Tail(lines),
                      [cur EXCEPT !.install_date = l.val, !.any = TRUE],
                      pk, explicit_set, t, step)
       ELSE ScanLines(Tail(lines), cur, pk, explicit_set, t, step)

----------------------------------------------------------------------------
(* scan_installed_packages *)

(* what the two pacman queries give: an exception of either, or the        *)
(* explicit names and the text of pacman -Qi                               *)
Inventory(ex, bs) == [error |-> "", explicit |-> ex, blocks |-> bs]

(* the exceptions of subprocess.check_output(...).decode(), lines 57 and   *)
(* 61: pacman exits with an error, pacman cannot be started, its output is *)
(* not UTF-8                                                               *)
QueryExceptions == {"CalledProcessError", "OSError", "UnicodeDecodeError"}

QueryErrors ==
  {[error |-> e, raises |-> x] : e \in {"Qqe", "Qi"}, x \in QueryExceptions}

(* what pacman prints: every installed package once, in the order of the   *)
(* names, and the explicit names among them                                *)
BlocksOf(n) ==
  IF n \in RunningNames THEN {<<>>, <<FullBlock(n)>>, <<BareBlock(n)>>}
                        ELSE {<<>>, <<FullBlock(n)>>}

(* the names of the 'Name' lines of a text *)
NamesOf(blocks) ==
  LET lines == Concat(blocks) IN
  {lines[i].val : i \in {j \in 1..Len(lines) : lines[j].key = "Name"}}

PacmanTexts == {ba \o bb : ba \in BlocksOf("a"), bb \in BlocksOf("b")}

PacmanInventories ==
  UNION {{Inventory(ex, bs) : ex \in SUBSET NamesOf(bs)} : bs \in PacmanTexts}

ClockSteps == {0, 1}

(* mutant: rows of packages that the text does not name are deleted first *)
ScanInstalledSync(pk, inv, t, step) ==
  ScanLines(Concat(inv.blocks), NoCur,
            [n \in Names |-> IF n \in NamesOf(inv.blocks) THEN pk[n] ELSE NoPkg],
            inv.explicit, t, step)

ScanInstalled(pk, inv, t, step) ==
  ScanLines(Concat(inv.blocks), NoCur, pk, inv.explicit, t, step)

NoPass == [at |-> "idle"]

NoPasses == [r \in Runs |-> NoPass]

(* the pass of run r has made an UPDATE and has not committed: its         *)
(* connection holds the write lock of the database                         *)
HasWritten(r) == pass[r] # NoPass /\ pass[r].wrote # <<>>

(* another connection holds the write lock of the database: the one a      *)
(* failed pass left open, or the one of a pass that has written and has    *)
(* not committed; the first write of this connection waits for the busy    *)
(* timeout and raises OperationalError                                     *)
Locked == leaked \/ \E r \in Runs : HasWritten(r)

(* the same for the connection of the pass of run r *)
LockedFor(r) == leaked \/ \E q \in Runs \ {r} : HasWritten(q)

(* history: the call before this one was a reconcile of the same snapshot *)
SameAsBefore(inv) ==
  last.op = "scan_installed_packages" /\ last.ok /\ last.inv = inv

(* raises is the exception that leaves the function, "" when it returns:   *)
(* the except clause of line 83 catches CalledProcessError only, not the   *)
(* other exceptions of the queries, the KeyError of the loop or the        *)
(* OperationalError of the first save                                      *)
scan_installed_packages(inv, step) ==
  IF inv.error # ""
  THEN /\ last' = [op |-> "scan_installed_packages", ok |-> FALSE, inv |-> inv,
                   again |-> FALSE,
                   raises |-> IF inv.raises = "CalledProcessError"
                              THEN "" ELSE inv.raises]
       /\ UNCHANGED <<packages, events, clock, tz, leaked>>
  ELSE LET r == ScanInstalled(packages, inv, clock, step) IN
       IF r.raises # ""
       THEN /\ last' = [op |-> "scan_installed_packages", ok |-> FALSE,
                        inv |-> inv, again |-> FALSE, raises |-> r.raises]
            /\ UNCHANGED <<packages, events, clock, tz, leaked>>
       ELSE IF Locked /\ NamesOf(inv.blocks) # {}
       THEN /\ last' = [op |-> "scan_installed_packages", ok |-> FALSE,
                        inv |-> inv, again |-> FALSE,
                        raises |-> "OperationalError"]
            /\ UNCHANGED <<packages, events, clock, tz, leaked>>
       ELSE /\ r.t <= MaxClock
            /\ packages' = r.pk
            /\ clock' = r.t
            /\ last' = [op |-> "scan_installed_packages", ok |-> TRUE,
                        inv |-> inv, again |-> SameAsBefore(inv), raises |-> ""]
            /\ UNCHANGED <<events, tz, leaked>>

----------------------------------------------------------------------------
(* scan_running_processes *)

(* output of pacman -Qo for one executable, as result.split() sees it *)
OwnedBy(n) == <<"/usr/bin/x", "is", "owned", "by", n, "1.0-1">>

(* one lookup: CalledProcessError, another exception, or the words printed *)
Lookups ==
  {[raises |-> "CalledProcessError"], [raises |-> "OSError"]} \cup
  {[raises |-> "", words |-> w] : w \in {<<>>} \cup {OwnedBy(n) : n \in RunningNames}}

Event(n, now) == [package_name |-> n, event_type |-> "process_scan", timestamp |-> now]

(* mutant: an upsert, a name that is not stored gets a row *)
UpdateLastSeenUpserts(pk, n, now) ==
  IF pk[n] # NoPkg THEN [pk EXCEPT ![n].last_seen = now]
  ELSE [pk EXCEPT ![n] = [description |-> "", install_date |-> "",
                          explicit_install |-> FALSE, last_seen |-> now]]

(* UPDATE packages SET last_seen = ? WHERE name = ? *)
UpdateLastSeen(pk, n, now) ==
  IF pk[n] # NoPkg THEN [pk EXCEPT ![n].last_seen = now] ELSE pk

(* mutant: the event is stamped with a reading of the clock of its own,   *)
(* later than the one of the UPDATE                                        *)
InsertEventOwnClock(ev, n, now) == Append(ev, Event(n, now + 1))

(* mutant: INSERT OR REPLACE on package_name, one row per package *)
InsertEventReplaces(ev, n, now) ==
  Append(SelectSeq(ev, LAMBDA e : e.package_name # n), Event(n, now))

(* INSERT INTO usage_events *)
InsertEvent(ev, n, now) == Append(ev, Event(n, now))

(* last.enumerated: the loop over /proc of lines 107-114 has ended;       *)
(* last.resolved: the names that the lookups of the pass gave              *)

(* the statements of the transaction of a pass, as the commit makes them   *)
(* visible: the UPDATE and the INSERT of every name written, with the now  *)
(* of line 118                                                             *)
RECURSIVE MapProcesses(_, _, _, _)
MapProcesses(wrote, pk, ev, now) ==
  IF wrote = <<>>
  THEN [pk |-> pk, ev |-> ev]
  ELSE MapProcesses(Tail(wrote),
                    UpdateLastSeen(pk, Head(wrote), now),
                    InsertEvent(ev, Head(wrote), now),
                    now)

(* lines 105-118: the loop over /proc, the connection and the reading of   *)
(* the clock; an exception of the loop over /proc goes to the outer except *)
scan_running_processes_begin(r, enumerated) ==
  /\ pass[r] = NoPass
  /\ IF enumerated
     THEN /\ pass' = [pass EXCEPT ![r] =
                        [at |-> "lookups", now |-> clock, done |-> 0,
                         wrote |-> <<>>, resolved |-> {}]]
          /\ UNCHANGED last
     ELSE /\ last' = [op |-> "scan_running_processes", ok |-> FALSE,
                      enumerated |-> FALSE, resolved |-> {}]
          /\ UNCHANGED pass
  /\ UNCHANGED <<packages, events, clock, tz, leaked>>

(* mutant: a connection in autocommit mode, each statement is kept as it  *)
(* is made                                                                 *)
scan_running_processes_lookup_autocommits(r, l) ==
  /\ pass[r] # NoPass
  /\ pass[r].done < MaxProcs
  /\ IF l.raises = "CalledProcessError" \/ (l.raises = "" /\ Len(l.words) < 5)
     THEN /\ pass' = [pass EXCEPT ![r].done = @ + 1]
          /\ UNCHANGED <<packages, events, last, leaked>>
     ELSE IF l.raises # ""
     THEN /\ last' = [op |-> "scan_running_processes", ok |-> FALSE,
                      enumerated |-> TRUE, resolved |-> pass[r].resolved]
          /\ pass' = [pass EXCEPT ![r] = NoPass]
          /\ UNCHANGED <<packages, events, leaked>>
     ELSE IF LockedFor(r)
     THEN /\ last' = [op |-> "scan_running_processes", ok |-> FALSE,
                      enumerated |-> TRUE,
                      resolved |-> pass[r].resolved \cup {l.words[5]}]
          /\ pass' = [pass EXCEPT ![r] = NoPass]
          /\ UNCHANGED <<packages, events, leaked>>
     ELSE /\ Len(events) < MaxEvents
          /\ packages' = UpdateLastSeen(packages, l.words[5], pass[r].now)
          /\ events' = InsertEvent(events, l.words[5], pass[r].now)
          /\ pass' = [pass EXCEPT ![r].done = @ + 1,
                                  ![r].resolved = @ \cup {l.words[5]}]
          /\ UNCHANGED <<last, leaked>>
  /\ UNCHANGED <<clock, tz>>

(* lines 120-139, one turn of the loop over processes: the pass waits for  *)
(* pacman -Qo and then makes its UPDATE and its INSERT.  CalledProcessError *)
(* and IndexError are caught at line 138; any other exception, that of the *)
(* UPDATE when the database is locked included, goes to the outer except   *)
(* of line 145: the pass returns False and its connection stays open with  *)
(* what it has written.  A pass whose UPDATE finds the write lock held by  *)
(* another connection has written nothing itself: its connection, left     *)
(* open, holds no lock                                                     *)
scan_running_processes_lookup(r, l) ==
  /\ pass[r] # NoPass
  /\ pass[r].done < MaxProcs
  /\ IF l.raises = "CalledProcessError" \/ (l.raises = "" /\ Len(l.words) < 5)
     THEN /\ pass' = [pass EXCEPT ![r].done = @ + 1]
          /\ UNCHANGED <<last, leaked>>
     ELSE IF l.raises # ""
     THEN /\ last' = [op |-> "scan_running_processes", ok |-> FALSE,
                      enumerated |-> TRUE, resolved |-> pass[r].resolved]
          /\ leaked' = (leaked \/ pass[r].wrote # <<>>)
          /\ pass' = [pass EXCEPT ![r] = NoPass]
     ELSE IF LockedFor(r)
     THEN /\ last' = [op |-> "scan_running_processes", ok |-> FALSE,
                      enumerated |-> TRUE,
                      resolved |-> pass[r].resolved \cup {l.words[5]}]
          /\ pass' = [pass EXCEPT ![r] = NoPass]
          /\ UNCHANGED leaked
     ELSE /\ Len(events) + Len(pass[r].wrote) < MaxEvents
          /\ pass' = [pass EXCEPT ![r].done = @ + 1,
                                  ![r].wrote = Append(@, l.words[5]),
                                  ![r].resolved = @ \cup {l.words[5]}]
          /\ UNCHANGED <<last, leaked>>
  /\ UNCHANGED <<packages, events, clock, tz>>

(* lines 141-143: the loop has ended, commit, close and return True *)
scan_running_processes_commit(r) ==
  /\ pass[r] # NoPass
  /\ LET m == MapProcesses(pass[r].wrote, packages, events, pass[r].now) IN
       /\ packages' = m.pk
       /\ events' = m.ev
  /\ last' = [op |-> "scan_running_processes", ok |-> TRUE,
              enumerated |-> TRUE, resolved |-> pass[r].resolved]
  /\ pass' = [pass EXCEPT ![r] = NoPass]
  /\ UNCHANGED <<clock, tz, leaked>>

----------------------------------------------------------------------------
(* get_package_stats *)

(* mutant: the days are rounded down *)
CastDaysFloor(x) == IF x >= 0 THEN x \div UnitsPerDay ELSE -((UnitsPerDay - 1 - x) \div UnitsPerDay)

(* CAST(x AS INTEGER) of a difference of x units: truncation toward zero *)
CastDays(x) == IF x >= 0 THEN x \div UnitsPerDay ELSE -((-x) \div UnitsPerDay)

(* CAST((julianday('now') - julianday(last_seen)) AS INTEGER); julianday   *)
(* of 'Never' is NULL and so is all that is computed from it               *)
JulianDays(utcnow, last_seen) ==
  IF last_seen = Never THEN {} ELSE {CastDays(utcnow - last_seen)}

(* CASE WHEN last_seen = 'Never' THEN 999 ELSE ... END *)
DaysUnused(utcnow, last_seen) ==
  IF last_seen = Never THEN {NeverDays} ELSE JulianDays(utcnow, last_seen)

(* x > k in SQL: not true of NULL *)
SqlGreater(x, k) == \E v \in x : v > k

Value(x) == CHOOSE v \in x : TRUE

(* mutant: ORDER BY days_unused DESC, name DESC *)
RowBeforeNameDesc(pk, utcnow, n, m) ==
  LET dn == Value(DaysUnused(utcnow, pk[n].last_seen))
      dm == Value(DaysUnused(utcnow, pk[m].last_seen))
  IN  dn > dm \/ (dn = dm /\ NameRank(n) > NameRank(m))

(* ORDER BY days_unused DESC, name *)
RowBefore(pk, utcnow, n, m) ==
  LET dn == Value(DaysUnused(utcnow, pk[n].last_seen))
      dm == Value(DaysUnused(utcnow, pk[m].last_seen))
  IN  dn > dm \/ (dn = dm /\ NameRank(n) < NameRank(m))

RECURSIVE OrderBy(_, _, _)
OrderBy(S, pk, utcnow) ==
  IF S = {} THEN <<>>
  ELSE LET n == CHOOSE x \in S : \A y \in S \ {x} : RowBefore(pk, utcnow, x, y)
       IN  <<n>> \o OrderBy(S \ {n}, pk, utcnow)

(* mutant: the percentage is not capped at 100 *)
DustPercentageUncapped(days_unused) ==
  [num |-> Min(days_unused, DustCap) * FullPercent, den |-> DustyDays]

DustPercentage(days_unused) ==
  LET dust_level == Min(days_unused, DustCap)
  IN  [num |-> Min(dust_level * FullPercent, FullPercent * DustyDays),
       den |-> DustyDays]

(* mutant: >= 30 for > 30 *)
SafetyFromThirty(explicit_install, days_unused) ==
  IF explicit_install /\ days_unused >= DustyDays THEN "safe" ELSE "risky"

Safety(explicit_install, days_unused) ==
  IF explicit_install /\ days_unused > DustyDays THEN "safe" ELSE "risky"

PackageRow(pk, utcnow, n) ==
  LET d == Value(DaysUnused(utcnow, pk[n].last_seen)) IN
  [name |-> n,
   description |-> pk[n].description,
   install_date |-> pk[n].install_date,
   explicit_install |-> pk[n].explicit_install,
   last_seen |-> pk[n].last_seen,
   days_unused |-> d,
   dust_percentage |-> DustPercentage(d),
   safety |-> Safety(pk[n].explicit_install, d)]

TotalPackages(pk) == Cardinality(Stored(pk))

UnusedWeek(pk, utcnow) ==
  Cardinality({n \in Stored(pk) :
                 SqlGreater(JulianDays(utcnow, pk[n].last_seen), WeekDays)})

DustyExplicit(pk, utcnow) ==
  Cardinality({n \in Stored(pk) :
                 /\ pk[n].explicit_install
                 /\ SqlGreater(JulianDays(utcnow, pk[n].last_seen), DustyDays)
                 /\ pk[n].last_seen # Never})

(* lines 154-178: the rows of the SELECT in its order, and what the loop   *)
(* over the cursor makes of each                                           *)
SelectPackages(pk, utcnow) ==
  LET order == OrderBy(Stored(pk), pk, utcnow) IN
  [i \in 1..Len(order) |-> PackageRow(pk, utcnow, order[i])]

----------------------------------------------------------------------------
(* the clock *)

Tick ==
  /\ clock < MaxClock
  /\ clock' = clock + 1
  /\ UNCHANGED <<packages, events, tz, last, leaked>>

(* the interpreter collects the connection a failed pass left open: its    *)
(* uncommitted writes are rolled back and the lock is released             *)
CollectGarbage ==
  /\ leaked
  /\ leaked' = FALSE
  /\ UNCHANGED <<packages, events, clock, tz, last>>

----------------------------------------------------------------------------
(* get_package_stats, statement by statement: each SELECT is a read        *)
(* transaction of its own, which sees what is committed when it runs and   *)
(* evaluates julianday('now') then.  reader holds the locals of the call.  *)

NoReader == [at |-> "idle"]

(* mutant: the call rewrites the rows that say 'Never' with the time of    *)
(* the call                                                                *)
stats_select_stamps ==
  /\ reader = NoReader
  /\ reader' = [at |-> "total",
                packages |-> SelectPackages(packages, clock - tz)]
  /\ packages' = [n \in Names |->
                    IF packages[n] # NoPkg /\ packages[n].last_seen = Never
                    THEN [packages[n] EXCEPT !.last_seen = clock]
                    ELSE packages[n]]
  /\ UNCHANGED <<events, clock, tz, last, leaked>>

(* lines 151-178: the SELECT of the rows, with its julianday('now'), and   *)
(* the loop over the cursor                                                *)
stats_select ==
  /\ reader = NoReader
  /\ reader' = [at |-> "total",
                packages |-> SelectPackages(packages, clock - tz)]
  /\ UNCHANGED <<packages, events, clock, tz, last, leaked>>

(* lines 181-182 *)
stats_total ==
  /\ reader.at = "total"
  /\ reader' = [at |-> "unused_week", packages |-> reader.packages,
                total_packages |-> TotalPackages(packages)]
  /\ UNCHANGED <<packages, events, clock, tz, last, leaked>>

(* lines 185-189, with a julianday('now') of its own *)
stats_unused_week ==
  /\ reader.at = "unused_week"
  /\ reader' = [at |-> "dusty_explicit", packages |-> reader.packages,
                total_packages |-> reader.total_packages,
                unused_week |-> UnusedWeek(packages, clock - tz)]
  /\ UNCHANGED <<packages, events, clock, tz, last, leaked>>

(* lines 191-208, with a julianday('now') of its own *)
stats_dusty_explicit ==
  /\ reader.at = "dusty_explicit"
  /\ last' = [op |-> "get_package_stats", ok |-> TRUE,
              result |-> [packages |-> reader.packages,
                          stats |-> [total |-> reader.total_packages,
                                     unused_week |-> reader.unused_week,
                                     dusty_explicit |->
                                       DustyExplicit(packages, clock - tz)]]]
  /\ reader' = NoReader
  /\ UNCHANGED <<packages, events, clock, tz, leaked>>

----------------------------------------------------------------------------
(* Spec: a new database (init_db on a machine without ~/.dust_tracker.db)  *)

(* local time minus UTC, in units: datetime.now() is local time and       *)
(* julianday('now') is UTC                                                 *)
TzOffsets == {-1, 0, 1}

NoCall == [op |-> "init_db", ok |-> TRUE]

Init ==
  /\ packages = [n \in Names |-> NoPkg]
  /\ events = <<>>
  /\ clock = 0
  /\ tz = 0
  /\ last = NoCall
  /\ leaked = FALSE
  /\ pending = <<>>
  /\ running = <<>>
  /\ reader = NoReader
  /\ pass = NoPasses

(* no call is in progress *)
Idle == pass = NoPasses /\ reader = NoReader

(* the calls of a DustTracker, one after another, and the clock, which     *)
(* goes on while a call waits for pacman or runs its statements; no web    *)
(* server                                                                  *)
Next ==
  \/ \E inv \in PacmanInventories \cup QueryErrors, step \in ClockSteps :
       /\ Idle
       /\ scan_installed_packages(inv, step)
       /\ UNCHANGED <<server, reader, pass>>
  \/ \E enumerated \in BOOLEAN :
       /\ Idle
       /\ scan_running_processes_begin(Main, enumerated)
       /\ UNCHANGED <<server, reader>>
  \/ \E l \in Lookups :
       scan_running_processes_lookup(Main, l) /\ UNCHANGED <<server, reader>>
  \/ scan_running_processes_commit(Main) /\ UNCHANGED <<server, reader>>
  \/ Idle /\ stats_select /\ UNCHANGED <<server, pass>>
  \/ stats_total /\ UNCHANGED <<server, pass>>
  \/ stats_unused_week /\ UNCHANGED <<server, pass>>
  \/ stats_dusty_explicit /\ UNCHANGED <<server, pass>>
  \/ Tick /\ UNCHANGED <<server, reader, pass>>
  \/ CollectGarbage /\ UNCHANGED <<server, reader, pass>>

Spec == Init /\ [][Next]_vars

----------------------------------------------------------------------------
(* SpecStats: get_package_stats on any database, a database written by an  *)
(* earlier version that stored 'Never' included.  Time 0 is the start of   *)
(* the model: the times of the records are negative.                       *)

DayCases == {0, 7, 8, 15, 30, 31, 400}

StatsRecords ==
  [description : {"tool"}, install_date : {"Mon"}, explicit_install : BOOLEAN,
   last_seen : {Never} \cup {-(d * UnitsPerDay) : d \in DayCases}]

(* the event log of that database: empty, or one event of a day ago *)
StatsEvents == {<<>>, <<Event("a", -UnitsPerDay)>>}

InitStats ==
  /\ packages \in [Names -> {NoPkg} \cup StatsRecords]
  /\ events \in StatsEvents
  /\ clock = 0
  /\ tz \in TzOffsets
  /\ last = NoCall
  /\ leaked = FALSE
  /\ pending = <<>>
  /\ running = <<>>
  /\ reader = NoReader
  /\ pass = NoPasses

NextStats ==
  \/ stats_select /\ UNCHANGED <<server, pass>>
  \/ stats_total /\ UNCHANGED <<server, pass>>
  \/ stats_unused_week /\ UNCHANGED <<server, pass>>
  \/ stats_dusty_explicit /\ UNCHANGED <<server, pass>>
  \/ Tick /\ UNCHANGED <<server, reader, pass>>

SpecStats == InitStats /\ [][NextStats]_vars

----------------------------------------------------------------------------
(* SpecSnapshots: reconcile of any text of pacman -Qi, one that names a    *)
(* package more than once or in another order included                     *)

Blocks == {FullBlock("a"), BareBlock("a"), FullBlock("b")}

(* the texts: blocks in any order, after a Description line of their own   *)
(* or not                                                                  *)
AnyTexts ==
  SeqsUpTo(Blocks, MaxBlocks) \cup
  {<<HeadlessBlock>> \o bs : bs \in SeqsUpTo(Blocks, MaxBlocks - 1)}

AnyInventories ==
  UNION {{Inventory(ex, bs) : ex \in SUBSET NamesOf(bs)} : bs \in AnyTexts}

NextSnapshots ==
  \/ \E inv \in AnyInventories, step \in ClockSteps :
       scan_installed_packages(inv, step) /\ UNCHANGED <<server, reader, pass>>
  \/ Tick /\ UNCHANGED <<server, reader, pass>>

SpecSnapshots == Init /\ [][NextSnapshots]_vars

----------------------------------------------------------------------------
(* SpecServer: the web server of main(), HTTPServer and serve_forever, and *)
(* DustHandler.do_GET; the clock goes on between and inside the requests  *)

(* '/' stands for every path that does not reach the tracker: the page and *)
(* the paths answered with 404                                             *)
Paths == {"/api/scan", "/api/stats", "/"}

Handler(path, at) == [path |-> path, at |-> at]

(* mutant: ThreadingHTTPServer, a thread per request *)
CanServeThreading(run) == TRUE

(* HTTPServer calls the handler inside its loop: the next request is taken *)
(* when the handler of this one has returned                               *)
CanServe(run) == run = <<>>

RemoveAt(s, i) == [j \in 1..(Len(s) - 1) |-> IF j < i THEN s[j] ELSE s[j + 1]]

(* a client connects: the request waits in the listening socket *)
Arrive(path) ==
  /\ Len(pending) < MaxPending
  /\ pending' = Append(pending, path)
  /\ UNCHANGED <<packages, events, clock, tz, last, leaked, running>>

(* serve_forever takes the next request and starts its handler *)
serve_forever ==
  /\ pending # <<>>
  /\ CanServe(running)
  /\ running' = Append(running, Handler(Head(pending), "do_GET"))
  /\ pending' = Tail(pending)
  /\ UNCHANGED <<packages, events, clock, tz, last, leaked>>

(* do_GET of '/' and of an unknown path *)
do_GET_other(i) ==
  /\ running[i] = Handler("/", "do_GET")
  /\ running' = [running EXCEPT ![i] = Handler("/", "sent")]
  /\ UNCHANGED <<packages, events, clock, tz, last, leaked, pending>>

(* do_GET of /api/stats, line 220: the call of get_package_stats *)
do_GET_stats(i) ==
  /\ running[i] = Handler("/api/stats", "do_GET")
  /\ stats_select
  /\ running' = [running EXCEPT ![i] = Handler("/api/stats", "get_package_stats")]
  /\ UNCHANGED pending

(* lines 221-223: the call has returned and the response is written *)
do_GET_stats_send(i) ==
  /\ running[i] = Handler("/api/stats", "get_package_stats")
  /\ reader = NoReader
  /\ running' = [running EXCEPT ![i] = Handler("/api/stats", "sent")]
  /\ UNCHANGED <<packages, events, clock, tz, last, leaked, pending>>

(* do_GET of /api/scan, line 225: an exception of scan_installed_packages  *)
(* leaves do_GET, the server prints it and closes the connection           *)
do_GET_scan_packages(i, inv, step) ==
  /\ running[i] = Handler("/api/scan", "do_GET")
  /\ scan_installed_packages(inv, step)
  /\ running' = [running EXCEPT ![i] =
                   IF last'.raises # ""
                   THEN Handler("/api/scan", "error")
                   ELSE [path |-> "/api/scan", at |-> "scan_running_processes",
                         called |-> FALSE, pkg_result |-> last'.ok]]
  /\ UNCHANGED pending

(* line 226: the call of scan_running_processes *)
do_GET_scan_processes(i, enumerated) ==
  /\ running[i].path = "/api/scan"
  /\ running[i].at = "scan_running_processes"
  /\ ~running[i].called
  /\ scan_running_processes_begin(Main, enumerated)
  /\ running' = [running EXCEPT ![i].called = TRUE]
  /\ UNCHANGED pending

(* lines 227-231: the call has returned and the response is written, with  *)
(* the datetime.now() of line 231                                          *)
do_GET_scan_send(i) ==
  /\ running[i].path = "/api/scan"
  /\ running[i].at = "scan_running_processes"
  /\ running[i].called
  /\ pass[Main] = NoPass
  /\ running' = [running EXCEPT ![i] =
                   [path |-> "/api/scan", at |-> "sent",
                    pkg_result |-> running[i].pkg_result,
                    proc_result |-> last.ok,
                    success |-> running[i].pkg_result /\ last.ok,
                    timestamp |-> clock]]
  /\ UNCHANGED <<packages, events, clock, tz, last, leaked, pending>>

(* the handler has returned or died: the connection is closed *)
shutdown_request(i) ==
  /\ running[i].at \in {"sent", "error"}
  /\ running' = RemoveAt(running, i)
  /\ UNCHANGED <<packages, events, clock, tz, last, leaked, pending>>

(* what the requests of one browser session make pacman print: package a,  *)
(* explicit or not, or a pacman -Qi that exits with an error or cannot be  *)
(* started                                                                 *)
ServedInventories ==
  {Inventory(ex, <<FullBlock("a")>>) : ex \in SUBSET {"a"}} \cup
  {[error |-> "Qi", raises |-> x] : x \in {"CalledProcessError", "OSError"}}

(* and the lookups of its running processes: executables of a and          *)
(* executables whose lookup dies                                           *)
ServedLookups == {[raises |-> "", words |-> OwnedBy("a")], [raises |-> "OSError"]}

NextServer ==
  \/ \E path \in Paths : Arrive(path) /\ UNCHANGED <<reader, pass>>
  \/ serve_forever /\ UNCHANGED <<reader, pass>>
  \/ \E i \in 1..Len(running) : do_GET_other(i) /\ UNCHANGED <<reader, pass>>
  \/ \E i \in 1..Len(running) : do_GET_stats(i) /\ UNCHANGED pass
  \/ stats_total /\ UNCHANGED <<server, pass>>
  \/ stats_unused_week /\ UNCHANGED <<server, pass>>
  \/ stats_dusty_explicit /\ UNCHANGED <<server, pass>>
  \/ \E i \in 1..Len(running) : do_GET_stats_send(i) /\ UNCHANGED <<reader, pass>>
  \/ \E i \in 1..Len(running), inv \in ServedInventories, step \in ClockSteps :
       do_GET_scan_packages(i, inv, step) /\ UNCHANGED <<reader, pass>>
  \/ \E i \in 1..Len(running), enumerated \in BOOLEAN :
       do_GET_scan_processes(i, enumerated) /\ UNCHANGED reader
  \/ \E l \in ServedLookups :
       scan_running_processes_lookup(Main, l) /\ UNCHANGED <<server, reader>>
  \/ scan_running_processes_commit(Main) /\ UNCHANGED <<server, reader>>
  \/ \E i \in 1..Len(running) : do_GET_scan_send(i) /\ UNCHANGED <<reader, pass>>
  \/ \E i \in 1..Len(running) : shutdown_request(i) /\ UNCHANGED <<reader, pass>>
  \/ Tick /\ UNCHANGED <<server, reader, pass>>
  \/ CollectGarbage /\ UNCHANGED <<server, reader, pass>>

SpecServer == Init /\ [][NextServer]_vars

----------------------------------------------------------------------------
(* SpecOverlap: processes on one database file, the web server and runs of *)
(* dust_tracker.py --scan-only: a call of get_package_stats, a correlate   *)
(* pass of each run and the reconciles of the runs go on side by side.  A  *)
(* write that finds the lock held by a pass that has written raises        *)
(* OperationalError, and what is committed while a pass waits for pacman   *)
(* is overwritten by the commit of the pass, which carries the now of line *)
(* 118                                                                     *)

NextOverlap ==
  \/ \E inv \in ServedInventories, step \in ClockSteps :
       scan_installed_packages(inv, step) /\ UNCHANGED <<server, reader, pass>>
  \/ \E r \in Runs, enumerated \in BOOLEAN :
       scan_running_processes_begin(r, enumerated) /\ UNCHANGED <<server, reader>>
  \/ \E r \in Runs, l \in ServedLookups :
       scan_running_processes_lookup(r, l) /\ UNCHANGED <<server, reader>>
  \/ \E r \in Runs :
       scan_running_processes_commit(r) /\ UNCHANGED <<server, reader>>
  \/ stats_select /\ UNCHANGED <<server, pass>>
  \/ stats_total /\ UNCHANGED <<server, pass>>
  \/ stats_unused_week /\ UNCHANGED <<server, pass>>
  \/ stats_dusty_explicit /\ UNCHANGED <<server, pass>>
  \/ Tick /\ UNCHANGED <<server, reader, pass>>
  \/ CollectGarbage /\ UNCHANGED <<server, reader, pass>>

SpecOverlap == Init /\ [][NextOverlap]_vars

----------------------------------------------------------------------------
(* SpecAged: the scans and get_package_stats on a database in which a and  *)
(* c were left by the scans of some days ago; c is no longer installed.    *)
(* Time 0 is the start of the model: the times of those scans are          *)
(* negative.                                                               *)

AgedRecords ==
  [description : {"tool"}, install_date : {"Mon"}, explicit_install : BOOLEAN,
   last_seen : {-(d * UnitsPerDay) : d \in DayCases}]

InitAged ==
  /\ packages \in {[n \in Names |-> IF n = "a" THEN ra
                                     ELSE IF n = "c" THEN rc ELSE NoPkg] :
                      ra \in {NoPkg} \cup AgedRecords,
                      rc \in {NoPkg} \cup AgedRecords}
  /\ events = <<>>
  /\ clock = 0
  /\ tz \in TzOffsets
  /\ last = NoCall
  /\ leaked = FALSE
  /\ pending = <<>>
  /\ running = <<>>
  /\ reader = NoReader
  /\ pass = NoPasses

(* one process, as in Next *)
NextAged ==
  \/ \E inv \in ServedInventories, step \in ClockSteps :
       /\ Idle
       /\ scan_installed_packages(inv, step)
       /\ UNCHANGED <<server, reader, pass>>
  \/ \E enumerated \in BOOLEAN :
       /\ Idle
       /\ scan_running_processes_begin(Main, enumerated)
       /\ UNCHANGED <<server, reader>>
  \/ \E l \in ServedLookups :
       scan_running_processes_lookup(Main, l) /\ UNCHANGED <<server, reader>>
  \/ scan_running_processes_commit(Main) /\ UNCHANGED <<server, reader>>
  \/ Idle /\ stats_select /\ UNCHANGED <<server, pass>>
  \/ stats_total /\ UNCHANGED <<server, pass>>
  \/ stats_unused_week /\ UNCHANGED <<server, pass>>
  \/ stats_dusty_explicit /\ UNCHANGED <<server, pass>>
  \/ Tick /\ UNCHANGED <<server, reader, pass>>
  \/ CollectGarbage /\ UNCHANGED <<server, reader, pass>>

SpecAged == InitAged /\ [][NextAged]_vars


----------------------------------------------------------------------------
(* Properties of scan_installed_packages and scan_running_processes (Spec) *)

IsReconcile(l) == l.op = "scan_installed_packages" /\ l.ok
IsCorrelate(l) == l.op = "scan_running_processes" /\ l.ok

(* the step in which the pass of run r, which has read the clock, returns *)
PassReturns(r) == pass[r] # NoPass /\ pass'[r] = NoPass

(* the step in which the pass of run r commits and returns True *)
PassCommits(r) == PassReturns(r) /\ last'.ok

(* the rows a step appended to usage_events that name package n *)
NewEventsFor(n) ==
  Cardinality({i \in (Len(events) + 1)..Len(events') :
                 /\ events'[i].package_name = n
                 /\ events'[i].event_type = "process_scan"})

(* C1: no step of reconcile or correlate, run with a clock that does not   *)
(* go back, moves the stored last_seen of a package backward               *)
C1_MonotonicLastSeen ==
  [][\A n \in Names :
       (packages[n] # NoPkg /\ packages'[n] # NoPkg)
         => packages'[n].last_seen >= packages[n].last_seen]_vars

(* a package that was stamped by a correlate pass and then went through a  *)
(* reconcile at a later time, next to one that was never seen running      *)
C1_Witness ==
  /\ IsReconcile(last)
  /\ NamesOf(last.inv.blocks) = {"a", "b"}
  /\ packages["a"] # NoPkg /\ packages["b"] # NoPkg
  /\ packages["b"].last_seen < packages["a"].last_seen
  /\ \E i \in 1..Len(events) :
       /\ events[i].package_name = "a"
       /\ events[i].timestamp = packages["a"].last_seen
       /\ events[i].timestamp > 0

(* C2: a reconcile leaves a record for every name of the snapshot; a name  *)
(* that was absent gets last_seen = the time of its save, never 'Never'; a *)
(* name that was present keeps its last_seen                               *)
C2_UpsertLastSeen ==
  [][IsReconcile(last')
       => \A n \in NamesOf(last'.inv.blocks) :
            /\ packages'[n] # NoPkg
            /\ IF packages[n] = NoPkg
               THEN /\ packages'[n].last_seen # Never
                    /\ packages'[n].last_seen >= clock
                    /\ packages'[n].last_seen <= clock'
               ELSE packages'[n].last_seen = packages[n].last_seen]_vars

(* after a reconcile of a and b, b carries a time before a's: b was in the *)
(* store before this reconcile, which saved a first                        *)
C2_Witness ==
  /\ IsReconcile(last)
  /\ NamesOf(last.inv.blocks) = {"a", "b"}
  /\ packages["a"] # NoPkg /\ packages["b"] # NoPkg
  /\ packages["b"].last_seen < packages["a"].last_seen
  /\ packages["a"].last_seen = clock

(* C3: a correlate pass in which some process resolves to a stored package *)
(* last seen before now sets its last_seen to now and appends exactly one  *)
(* process_scan event for it                                               *)
C3_OneEventPerPackage ==
  [][\A r \in Runs :
       PassCommits(r)
         => \A n \in last'.resolved :
              (packages[n] # NoPkg /\ packages[n].last_seen < pass[r].now)
                => /\ packages'[n].last_seen = pass[r].now
                   /\ NewEventsFor(n) = 1]_vars

(* C4: a reconcile of the snapshot that the reconcile before it was given, *)
(* with no correlate between the two, leaves every record as it was        *)
C4_IdempotentReconcile ==
  [][(IsReconcile(last) /\ IsReconcile(last') /\ last'.inv = last.inv)
       => packages' = packages]_vars

(* the second of two reconciles of one snapshot, at a later time than the  *)
(* records' last_seen                                                      *)
C4_Witness ==
  /\ IsReconcile(last)
  /\ last.again
  /\ NamesOf(last.inv.blocks) = {"a", "b"}
  /\ packages["a"] # NoPkg /\ packages["b"] # NoPkg
  /\ packages["a"].last_seen < clock
  /\ packages["b"].last_seen < clock
  /\ packages["a"].explicit_install = ("a" \in last.inv.explicit)
  /\ packages["a"].description = "utility"

(* C5: a correlate pass that resolves a name which is not in the store     *)
(* creates no record and appends no event for that name                    *)
C5_UnknownPackageDropped ==
  [][\A r \in Runs :
       PassCommits(r)
         => \A n \in last'.resolved :
              packages[n] = NoPkg
                => /\ packages'[n] = NoPkg
                   /\ NewEventsFor(n) = 0]_vars

(* C13: a correlate pass that can enumerate the processes returns True    *)
(* however many lookups fail; a path whose lookup fails changes nothing,   *)
(* and the paths that resolve are processed: their packages are stamped    *)
(* and get their events, no other record or event changes                  *)
C13_LookupFailuresSkipped ==
  [][\A r \in Runs :
       PassReturns(r)
         => /\ last'.ok
            /\ \A n \in Names \ last'.resolved :
                 packages'[n] = packages[n] /\ NewEventsFor(n) = 0
            /\ \A n \in last'.resolved :
                 /\ NewEventsFor(n) >= 1
                 /\ packages[n] # NoPkg
                      => packages'[n].last_seen = pass[r].now]_vars

(* C6: no step removes a package from the store *)
C6_NeverDeleted ==
  [][\A n \in Names : packages[n] # NoPkg => packages'[n] # NoPkg]_vars

(* a package is in the store after a reconcile whose snapshot omits it *)
C6_Witness ==
  /\ IsReconcile(last)
  /\ \E n \in Stored(packages) : n \notin NamesOf(last.inv.blocks)

(* C12: a reconcile whose pacman -Qqe or pacman -Qi fails, whatever the    *)
(* failure, returns False and leaves every package record and the event    *)
(* log as they were                                                        *)
C12_QueryFailure ==
  [][(last'.op = "scan_installed_packages" /\ last'.inv.error # "")
       => /\ ~last'.ok
          /\ last'.raises = ""
          /\ packages' = packages
          /\ events' = events]_vars

(* C17: every step keeps the events of the log, in their places and with   *)
(* their package_name, event_type and timestamp, and a reconcile appends   *)
(* nothing                                                                 *)
C17_AppendOnly ==
  [][/\ Len(events') >= Len(events)
     /\ \A i \in 1..Len(events) :
          /\ events'[i].package_name = events[i].package_name
          /\ events'[i].event_type = events[i].event_type
          /\ events'[i].timestamp = events[i].timestamp
     /\ last'.op = "scan_installed_packages" => events' = events]_vars

(* a correlate pass has appended an event of a, which is in the store, to  *)
(* a log that held an older event of a                                     *)
C17_Witness ==
  /\ IsCorrelate(last)
  /\ Len(events) = 2
  /\ events[1].package_name = "a" /\ events[2].package_name = "a"
  /\ events[1].timestamp < events[2].timestamp
  /\ packages["a"] # NoPkg

(* what a block of the snapshot says for a key: the value of its line, ''  *)
(* when it has none                                                        *)
FieldOf(block, key) ==
  IF \E i \in 1..Len(block) : block[i].key = key
  THEN block[CHOOSE i \in 1..Len(block) : block[i].key = key].val
  ELSE ""

(* C18: after a reconcile that returned True, every package of the         *)
(* snapshot is stored with the description and the install date of the     *)
(* snapshot and with explicit_install = (its name is in the explicit set), *)
(* whatever was stored before                                              *)
C18_SnapshotFields ==
  IsReconcile(last) =>
    \A i \in 1..Len(last.inv.blocks) :
      LET block == last.inv.blocks[i]
          n == FieldOf(block, "Name")
      IN  /\ packages[n] # NoPkg
          /\ packages[n].description = FieldOf(block, "Description")
          /\ packages[n].install_date = FieldOf(block, "Install Date")
          /\ packages[n].explicit_install = (n \in last.inv.explicit)

(* a reconcile at a later time than a's record: a is stored with the       *)
(* description of a block without install date and as not explicit, next   *)
(* to an explicit b                                                        *)
C18_Witness ==
  /\ IsReconcile(last)
  /\ ~last.again
  /\ last.inv.explicit = {"b"}
  /\ last.inv.blocks = <<BareBlock("a"), FullBlock("b")>>
  /\ packages["a"].last_seen < clock
  /\ packages["a"].description = "utility"
  /\ packages["a"].install_date = ""
  /\ ~packages["a"].explicit_install
  /\ packages["b"].explicit_install

(* a step of a call of scan_running_processes *)
IsCorrelateStep ==
  pass' # pass \/ (last' # last /\ last'.op = "scan_running_processes")

(* C22: a call of scan_running_processes adds no package and removes none, *)
(* leaves description, install_date and explicit_install of every package  *)
(* as they were, and leaves last_seen of every package that no lookup of   *)
(* the pass gave as it was                                                 *)
C22_CorrelateFrame ==
  [][IsCorrelateStep
       => /\ Stored(packages') = Stored(packages)
          /\ \A n \in Stored(packages) :
                /\ packages'[n].description = packages[n].description
                /\ packages'[n].install_date = packages[n].install_date
                /\ packages'[n].explicit_install = packages[n].explicit_install
                /\ (~(\E r \in Runs : PassCommits(r) /\ n \in last'.resolved)
                      => packages'[n] = packages[n])]_vars

(* a pass that resolved a, later than the reconcile that stored a and b:   *)
(* a is stamped with the time of the pass, b keeps the time of its save    *)
C22_Witness ==
  /\ IsCorrelate(last)
  /\ last.resolved = {"a"}
  /\ Stored(packages) = {"a", "b"}
  /\ packages["a"].last_seen = clock
  /\ packages["b"].last_seen < clock
  /\ packages["a"].description = "tool"
  /\ packages["a"].explicit_install

(* C23: a call of scan_running_processes that returns False leaves the    *)
(* packages and the usage events as they were, whatever it had written     *)
(* before it failed, and nothing that a call writes shows before its       *)
(* commit; a call that returns True has stamped every stored package it    *)
(* resolved and logged an event for every name it resolved                 *)
C23_AllOrNothing ==
  [][IsCorrelateStep
       => IF \E r \in Runs : PassCommits(r)
          THEN \A r \in Runs :
                 PassCommits(r)
                   => \A n \in last'.resolved :
                        /\ NewEventsFor(n) >= 1
                        /\ (n \in Stored(packages)
                              => packages'[n].last_seen = pass[r].now)
          ELSE packages' = packages /\ events' = events]_vars

(* a pass that failed after it had stamped a and logged its event: the     *)
(* connection is left open with these writes, a has the time of its save   *)
(* and there is no event                                                   *)
C23_Witness ==
  /\ last.op = "scan_running_processes"
  /\ ~last.ok
  /\ last.resolved = {"a"}
  /\ leaked
  /\ packages["a"] # NoPkg
  /\ packages["a"].last_seen < clock
  /\ events = <<>>

(* the rows a step appended to usage_events *)
NewEvents == (Len(events) + 1)..Len(events')

(* C24: a stored package has the last_seen of the newest usage event that  *)
(* was logged for it while it was stored.  Step by step: a step that logs  *)
(* events for a stored package leaves it with the timestamp of these       *)
(* events as last_seen, a step that logs none for it leaves its last_seen  *)
(* as it was, and no event of a stored package is later than its last_seen *)
C24_LastSeenIsNewestEvent ==
  [][\A n \in Names :
       /\ packages[n] # NoPkg
            => /\ packages'[n] # NoPkg
               /\ IF \E i \in NewEvents : events'[i].package_name = n
                  THEN \A i \in NewEvents :
                         events'[i].package_name = n
                           => events'[i].timestamp = packages'[n].last_seen
                  ELSE packages'[n].last_seen = packages[n].last_seen
       /\ packages'[n] # NoPkg
            => \A i \in 1..Len(events') :
                 events'[i].package_name = n
                   => events'[i].timestamp <= packages'[n].last_seen]_vars

(* the pass just made found a, which is stored, running: a has an event   *)
(* of time 0 and the event of this pass, and the time of this pass as      *)
(* last_seen                                                               *)
C24_Witness ==
  /\ IsCorrelate(last)
  /\ last.resolved = {"a"}
  /\ events = <<Event("a", 0), Event("a", 1)>>
  /\ packages["a"] # NoPkg
  /\ packages["a"].last_seen = 1
  /\ clock = 1

----------------------------------------------------------------------------
(* Properties of scan_installed_packages on any text (SpecSnapshots) *)

(* the places of the blocks of a text that name n *)
PlacesOf(blocks, n) == {i \in 1..Len(blocks) : FieldOf(blocks[i], "Name") = n}

FirstOf(S) == CHOOSE i \in S : \A j \in S : i <= j
LastOf(S) == CHOOSE i \in S : \A j \in S : i >= j

(* the time between two saves of a reconcile step *)
StepOf(blocks, t, u) == IF u = t THEN 0 ELSE (u - t) \div (Len(blocks) - 1)

(* C20: after a reconcile of a snapshot that names a package more than     *)
(* once, the record of the package has the description, the install date   *)
(* and the explicit flag of the last block that names it, and the          *)
(* last_seen that its first block gave: the one stored before, or the time *)
(* of the save of the first block                                          *)
C20_DuplicateNames ==
  [][IsReconcile(last')
       => \A n \in Names :
            LET blocks == last'.inv.blocks
                places == PlacesOf(blocks, n)
            IN  Cardinality(places) >= 2
                  => packages'[n] =
                       [description |->
                          FieldOf(blocks[LastOf(places)], "Description"),
                        install_date |->
                          FieldOf(blocks[LastOf(places)], "Install Date"),
                        explicit_install |-> n \in last'.inv.explicit,
                        last_seen |->
                          IF packages[n] # NoPkg
                          THEN packages[n].last_seen
                          ELSE clock + (FirstOf(places) - 1)
                                         * StepOf(blocks, clock, clock')]]_vars

(* a, which was not in the store, has been saved from two blocks at two    *)
(* times: it has the description of the second and the time of the first   *)
C20_Witness ==
  /\ IsReconcile(last)
  /\ last.inv.blocks = <<FullBlock("a"), BareBlock("a")>>
  /\ packages["a"] # NoPkg
  /\ packages["a"].description = "utility"
  /\ packages["a"].install_date = ""
  /\ packages["a"].last_seen = 0
  /\ clock = 1
  /\ events = <<>>

(* the texts that hold the blocks of a text in another order *)
Reordered(blocks) ==
  {[i \in 1..Len(blocks) |-> blocks[p[i]]] : p \in Permutations(1..Len(blocks))}

(* C21: a reconcile of a snapshot that names each package once leaves the  *)
(* records that a reconcile of the same blocks in any other order, started *)
(* on the same store at the same time, would leave                         *)
C21_OrderIrrelevant ==
  [][(/\ IsReconcile(last')
      /\ Len(last'.inv.blocks) >= 2
      /\ \A n \in Names : Cardinality(PlacesOf(last'.inv.blocks, n)) <= 1)
       => \A other \in Reordered(last'.inv.blocks) :
            ScanInstalled(packages, Inventory(last'.inv.explicit, other), clock,
                          StepOf(last'.inv.blocks, clock, clock')).pk
              = packages']_vars

----------------------------------------------------------------------------
(* Properties of get_package_stats (SpecStats) *)

IsStats == last.op = "get_package_stats"

Rows == last.result.packages

RatioIs(p, k) == p.num = k * p.den

(* C7: a package whose last_seen is 'Never' is counted in unused_week (its *)
(* days_unused, 999, is > 7) and is not counted in dusty_explicit: each of  *)
(* the two counts is, for a time of the call, the number of packages with   *)
(* the days_unused of a row, 999 for 'Never', above 7, and the number of    *)
(* explicit packages not 'Never' with it above 30                           *)
C7_NeverAsymmetry ==
  IsStats =>
    /\ \E t \in 0..clock :
         last.result.stats.unused_week =
           Cardinality({n \in Stored(packages) :
              Value(DaysUnused(t - tz, packages[n].last_seen)) > WeekDays})
    /\ \E t \in 0..clock :
         last.result.stats.dusty_explicit =
           Cardinality({n \in Stored(packages) :
              /\ packages[n].explicit_install
              /\ packages[n].last_seen # Never
              /\ Value(DaysUnused(t - tz, packages[n].last_seen)) > DustyDays})

(* C15: every statement of a call of get_package_stats leaves every        *)
(* package record, field by field, and the event log as they were          *)
C15_StatsReadOnly ==
  [][reader' # reader
       => /\ events' = events
          /\ \A n \in Names :
               /\ (packages'[n] = NoPkg) <=> (packages[n] = NoPkg)
               /\ packages[n] # NoPkg
                    => /\ packages'[n].description = packages[n].description
                       /\ packages'[n].install_date = packages[n].install_date
                       /\ packages'[n].explicit_install = packages[n].explicit_install
                       /\ packages'[n].last_seen = packages[n].last_seen]_vars

(* the call has returned the rows of a store that holds a 'Never' row, a   *)
(* dated one and an event                                                  *)
C15_Witness ==
  /\ IsStats
  /\ events # <<>>
  /\ Len(Rows) >= 2
  /\ \E n, m \in Stored(packages) :
       packages[n].last_seen = Never /\ packages[m].last_seen # Never

(* C8: safety is "safe" exactly when the package is explicit and           *)
(* days_unused > 30, and "risky" otherwise                                 *)
C8_Safety ==
  IsStats =>
    \A i \in 1..Len(Rows) :
      /\ Rows[i].safety \in {"safe", "risky"}
      /\ Rows[i].safety = "safe"
           <=> (Rows[i].explicit_install /\ Rows[i].days_unused > 30)

(* an explicit package at 30 days and a dependency at 400 are risky, an    *)
(* explicit one at 31 is safe                                              *)
C8_Witness ==
  /\ IsStats
  /\ \E i, j, k \in 1..Len(Rows) :
       /\ Rows[i].explicit_install /\ Rows[i].days_unused = 30
       /\ Rows[i].safety = "risky"
       /\ ~Rows[j].explicit_install /\ Rows[j].days_unused = 400
       /\ Rows[j].safety = "risky"
       /\ Rows[k].explicit_install /\ Rows[k].days_unused = 31
       /\ Rows[k].safety = "safe"

(* C9: dust_percentage = min(min(d, 365) * 100 / 30, 100) for d >= 0: 50   *)
(* at 15, 100 at 30 and beyond, and days_unused stays the raw d, the whole *)
(* days from last_seen to a time of the call                               *)
C9_DustPercentage ==
  IsStats =>
    \A i \in 1..Len(Rows) :
      LET d == Rows[i].days_unused
          p == Rows[i].dust_percentage
          capped == IF d <= 365 THEN d ELSE 365
      IN  d >= 0 =>
            /\ p.num * 30 =
                 p.den * (IF capped * 100 <= 3000 THEN capped * 100 ELSE 3000)
            /\ (d = 15 => RatioIs(p, 50))
            /\ (d >= 30 => RatioIs(p, 100))
            /\ (Rows[i].last_seen # Never
                  => \E t \in 0..clock :
                       d = CastDays(t - tz - Rows[i].last_seen))

(* rows at 15, 30 and 400 days *)
C9_Witness ==
  /\ IsStats
  /\ \E i, j, k \in 1..Len(Rows) :
       /\ Rows[i].days_unused = 15 /\ RatioIs(Rows[i].dust_percentage, 50)
       /\ Rows[j].days_unused = 30 /\ RatioIs(Rows[j].dust_percentage, 100)
       /\ Rows[k].days_unused = 400 /\ RatioIs(Rows[k].dust_percentage, 100)

(* C10: the rows are the stored packages, each once, by descending         *)
(* days_unused and, among equal days_unused, by ascending name             *)
C10_Ordering ==
  IsStats =>
    /\ Len(Rows) = Cardinality(Stored(packages))
    /\ {Rows[i].name : i \in 1..Len(Rows)} = Stored(packages)
    /\ \A i, j \in 1..Len(Rows) :
         i < j =>
           \/ Rows[i].days_unused > Rows[j].days_unused
           \/ /\ Rows[i].days_unused = Rows[j].days_unused
              /\ NameRank(Rows[i].name) < NameRank(Rows[j].name)

(* two packages at 15 days in the order of their names, then one at 7 *)
C10_Witness ==
  /\ IsStats
  /\ Len(Rows) = 3
  /\ Rows[1].name = "a" /\ Rows[1].days_unused = 15
  /\ Rows[2].name = "c" /\ Rows[2].days_unused = 15
  /\ Rows[3].name = "b" /\ Rows[3].days_unused = 7

----------------------------------------------------------------------------
(* Properties of the scan cycle of do_GET (SpecServer) *)

IsScan(h) == h.path = "/api/scan"

(* C11: a scan cycle that has run scan_installed_packages goes on to       *)
(* scan_running_processes, whatever the first returned, and the success it *)
(* sends is TRUE exactly when both returned TRUE                           *)
C11_BothPhases ==
  \A i \in 1..Len(running) :
    IsScan(running[i]) =>
      /\ running[i].at \in {"do_GET", "scan_running_processes", "sent"}
      /\ running[i].at = "sent"
           => (running[i].success
                 <=> (running[i].pkg_result /\ running[i].proc_result))

(* the scan cycles that have started and have not ended *)
InCycle ==
  {i \in 1..Len(running) :
     IsScan(running[i]) /\ running[i].at \in {"do_GET", "scan_running_processes"}}

(* C14: at most one scan cycle is between its start and its end at any     *)
(* time: the cycles of requests that arrive together run one after another *)
C14_CyclesSerialized == Cardinality(InCycle) <= 1

(* a cycle is between its two phases while another scan request waits *)
C14_Witness ==
  /\ \E i \in InCycle : running[i].at = "scan_running_processes"
  /\ \E j \in 1..Len(pending) : pending[j] = "/api/scan"
  /\ Stored(packages) # {}

----------------------------------------------------------------------------
(* Properties of get_package_stats next to a scan (SpecOverlap) *)

(* C16: what one call of get_package_stats returns describes one state of  *)
(* the store although a scan commits during the call: total is the number  *)
(* of rows returned, and a package counted in dusty_explicit is a row      *)
C16_OneSnapshot ==
  IsStats =>
    /\ last.result.stats.total = Len(Rows)
    /\ last.result.stats.unused_week <= Len(Rows)
    /\ last.result.stats.dusty_explicit <= Len(Rows)

----------------------------------------------------------------------------
(* Properties of get_package_stats after scans and days (SpecAged) *)

(* C19: in every store that reconcile and correlate passes and the passing *)
(* of time have made, the dust_percentage of every row that                *)
(* get_package_stats returns is at least 0 and at most 100                 *)
C19_PercentageRange ==
  IsStats =>
    \A i \in 1..Len(Rows) :
      /\ Rows[i].dust_percentage.den > 0
      /\ Rows[i].dust_percentage.num >= 0
      /\ Rows[i].dust_percentage.num <= 100 * Rows[i].dust_percentage.den

(* east of Greenwich, where julianday('now') is before the local time that *)
(* a correlate pass has just written for a: a is at 0, c at 50 or at 100   *)
C19_Witness ==
  /\ IsStats
  /\ tz > 0
  /\ packages["a"] # NoPkg
  /\ \E e \in 1..Len(events) : events[e].timestamp = packages["a"].last_seen
  /\ \E i, j \in 1..Len(Rows) :
       /\ Rows[i].name = "a"
       /\ Rows[i].last_seen > clock - tz
       /\ RatioIs(Rows[i].dust_percentage, 0)
       /\ Rows[j].name = "c"
       /\ Rows[j].days_unused \in {15, 400}
       /\ (Rows[j].days_unused = 15 => RatioIs(Rows[j].dust_percentage, 50))
       /\ (Rows[j].days_unused = 400 => RatioIs(Rows[j].dust_percentage, 100))

----------------------------------------------------------------------------
(* Properties of the stores that the scans make of a new database (Spec) *)

(* C25: no package of a database that started empty has 'Never' as         *)
(* last_seen, and no row that get_package_stats returns of it says 'Never' *)
(* or has the 999 days of 'Never'                                          *)
C25_NeverNotStored ==
  /\ \A n \in Stored(packages) : packages[n].last_seen # Never
  /\ IsStats => \A i \in 1..Len(Rows) :
                  /\ Rows[i].last_seen # Never
                  /\ Rows[i].days_unused # NeverDays

(* get_package_stats of a store that the scans have made, with two        *)
(* packages saved or stamped at two times and a usage event: two rows,     *)
(* each with a day count of 0                                              *)
C25_Witness ==
  /\ IsStats
  /\ Len(Rows) = 2
  /\ events # <<>>
  /\ packages["a"].last_seen = 1
  /\ packages["b"].last_seen = 0
  /\ \A i \in 1..Len(Rows) : Rows[i].days_unused = 0

----------------------------------------------------------------------------
(* Properties of the result of get_package_stats after days (SpecAged) *)

(* the rows of the result that say 'safe' *)
SafeRows == {i \in 1..Len(Rows) : Rows[i].safety = "safe"}

(* C26: the result of a call of get_package_stats on a database that the   *)
(* scans have made has as many rows with safety 'safe' as its              *)
(* dusty_explicit says                                                     *)
C26_SafeIsDustyExplicit ==
  IsStats => Cardinality(SafeRows) = last.result.stats.dusty_explicit

====
